---- MODULE Spec2Model ----
(***************************************************************************)
(* User / Task aggregates, their repositories over a relational store and  *)
(* the use cases that drive them (axum-ddd-template).                      *)
(*                                                                         *)
(* Three specifications share the variables:                               *)
(*   Spec       - concurrent use-case invocations against the store;       *)
(*   SpecDomain - the aggregates' constructors and mutators applied to     *)
(*                in-memory instances, as the unit tests apply them;       *)
(*   SpecPure   - the identifiers, map_db_error and the transport's error  *)
(*                mapping applied to their inputs.                         *)
(***************************************************************************)
EXTENDS Integers, Sequences, FiniteSets, TLC

(***************************************************************************)
(* Bounds                                                                  *)
(***************************************************************************)
\* identifiers UserId::generate / TaskId::generate may hand out in one run
MaxUsers == 2
MaxTasks == 2
\* use-case invocations started in one run
MaxCalls == 4

\* invocations in flight at once
NumProcs == 2
Procs == 1..NumProcs

(***************************************************************************)
(* Input alphabets.  Text fields are strings ("" is the empty string);     *)
(* e-mail addresses are sequences of characters, so that the address       *)
(* grammar is computed and not looked up.                                  *)
(***************************************************************************)
Names == {"", "Ann", "Bob"}
Titles == {"", "Buy milk"}
Descriptions == {"", "2 litres"}

EmailAnn == <<"a", "@", "x">>
EmailBob == <<"b", "@", "x">>
EmailNoAt == <<"a", "x">>
EmailNoLocal == <<"@", "x">>
EmailNoDomain == <<"a", "@">>
\* addresses handed to the aggregates
RawEmails == {EmailAnn, EmailBob, EmailNoAt, <<>>, EmailNoLocal, EmailNoDomain}

\* the (name, email) pairs CreateUserCommand / UpdateUserCommand carry
UserCommands ==
    {[name |-> "Ann", email |-> EmailAnn], [name |-> "Bob", email |-> EmailBob],
     [name |-> "", email |-> EmailAnn], [name |-> "Ann", email |-> EmailNoAt]}
\* the (title, description) pairs CreateTaskCommand carries
TaskCommands ==
    {[title |-> "Buy milk", description |-> ""],
     [title |-> "Buy milk", description |-> "2 litres"],
     [title |-> "", description |-> ""]}

UserIdOf_Fixed(n) == "u1"

\* the n-th value UserId::generate / TaskId::generate hands out: a v4 UUID in
\* text form, taken to differ from every UUID drawn before it
UserIdOf(n) == "u" \o ToString(n)
TaskIdOf(n) == "t" \o ToString(n)
\* raw id strings a caller may send: any id of the pool, or the empty string
RawUserIds == {""} \cup {UserIdOf(n) : n \in 1..MaxUsers}
RawTaskIds == {""} \cup {TaskIdOf(n) : n \in 1..MaxTasks}

(***************************************************************************)
(* Result<T, DomainError>.  value is an Option: <<>> or <<v>>.             *)
(***************************************************************************)
Ok(v) == [kind |-> "Ok", msg |-> "", value |-> v]
Validation(m) == [kind |-> "Validation", msg |-> m, value |-> <<>>]
NotFound(m) == [kind |-> "NotFound", msg |-> m, value |-> <<>>]
AlreadyExists(m) == [kind |-> "AlreadyExists", msg |-> m, value |-> <<>>]
Infrastructure(m) == [kind |-> "Infrastructure", msg |-> m, value |-> <<>>]
Unexpected(m) == [kind |-> "Unexpected", msg |-> m, value |-> <<>>]
IsOk(r) == r.kind = "Ok"

\* #[error("...: {0}")]: the Display text of a DomainError
DomainError_to_string(e) ==
    CASE e.kind = "Validation" -> "Validation error: " \o e.msg
      [] e.kind = "NotFound" -> "Not found: " \o e.msg
      [] e.kind = "AlreadyExists" -> "Already exists: " \o e.msg
      [] e.kind = "Infrastructure" -> "Infrastructure error: " \o e.msg
      [] e.kind = "Unexpected" -> "Unexpected error: " \o e.msg

(***************************************************************************)
(* The transport's error body: impl From<DomainError> for ApiError         *)
(***************************************************************************)
ApiError_from_EchoInternal(e) ==
    CASE e.kind = "NotFound" ->
             [code |-> "NOT_FOUND", status |-> 404, message |-> DomainError_to_string(e)]
      [] e.kind = "Validation" ->
             [code |-> "VALIDATION_ERROR", status |-> 400,
              message |-> DomainError_to_string(e)]
      [] e.kind = "AlreadyExists" ->
             [code |-> "ALREADY_EXISTS", status |-> 409,
              message |-> DomainError_to_string(e)]
      [] e.kind \in {"Infrastructure", "Unexpected"} ->
             [code |-> "INTERNAL_ERROR", status |-> 500,
              message |-> DomainError_to_string(e)]

ApiError_from_ConflictAsBadRequest(e) ==
    CASE e.kind = "NotFound" ->
             [code |-> "NOT_FOUND", status |-> 404, message |-> DomainError_to_string(e)]
      [] e.kind \in {"Validation", "AlreadyExists"} ->
             [code |-> "VALIDATION_ERROR", status |-> 400,
              message |-> DomainError_to_string(e)]
      [] e.kind \in {"Infrastructure", "Unexpected"} ->
             [code |-> "INTERNAL_ERROR", status |-> 500,
              message |-> "Internal server error"]

ApiError_from(e) ==
    CASE e.kind = "NotFound" ->
             [code |-> "NOT_FOUND", status |-> 404, message |-> DomainError_to_string(e)]
      [] e.kind = "Validation" ->
             [code |-> "VALIDATION_ERROR", status |-> 400,
              message |-> DomainError_to_string(e)]
      [] e.kind = "AlreadyExists" ->
             [code |-> "ALREADY_EXISTS", status |-> 409,
              message |-> DomainError_to_string(e)]
      [] e.kind \in {"Infrastructure", "Unexpected"} ->
             [code |-> "INTERNAL_ERROR", status |-> 500,
              message |-> "Internal server error"]

(***************************************************************************)
(* Value objects                                                           *)
(***************************************************************************)
StringId_new_AcceptEmpty(label, id) == Ok(<<id>>)

\* string_id!($name, $label)::new
StringId_new(label, id) ==
    IF id = ""
    THEN Validation(label \o " ID cannot be empty")
    ELSE Ok(<<id>>)

\* the identifier's value(): the wrapped string
StringId_value(self) == self
\* #[derive(PartialEq, Eq)] on the tuple struct: equality of the wrapped strings
StringId_eq(a, b) == StringId_value(a) = StringId_value(b)

UserId_new(id) == StringId_new("User", id)
TaskId_new(id) == StringId_new("Task", id)
UserId_entity_name == "User"
TaskId_entity_name == "Task"

\* the address grammar: a non-empty local part, one "@", a non-empty domain
EmailAddress_is_valid(e) ==
    \E i \in 2..(Len(e) - 1) :
        /\ e[i] = "@"
        /\ \A j \in (1..Len(e)) \ {i} : e[j] # "@"

Email_new(email) ==
    IF ~EmailAddress_is_valid(email)
    THEN Validation("Invalid email format")
    ELSE Ok(<<email>>)

(***************************************************************************)
(* Aggregates.  A &mut self method yields [res, self]: the returned        *)
(* Result and the instance as the call leaves it.                          *)
(***************************************************************************)
User_new_NoEmailCheck(id, name, email) ==
    IF name = ""
    THEN Validation("Name cannot be empty")
    ELSE Ok(<<[id |-> id, name |-> name, email |-> email, updated_at |-> "None"]>>)

User_new(id, name, email) ==
    IF name = ""
    THEN Validation("Name cannot be empty")
    ELSE LET e == Email_new(email)
         IN  IF ~IsOk(e)
             THEN e
             ELSE Ok(<<[id |-> id, name |-> name, email |-> e.value[1],
                        updated_at |-> "None"]>>)

User_update_NameFirst(self, name, email) ==
    IF name = ""
    THEN [res |-> Validation("Name cannot be empty"), self |-> self]
    ELSE LET e == Email_new(email)
             named == [self EXCEPT !.name = name]
         IN  IF ~IsOk(e)
             THEN [res |-> e, self |-> named]
             ELSE [res |-> Ok(<<>>), self |-> [named EXCEPT !.email = e.value[1]]]

User_update(self, name, email) ==
    IF name = ""
    THEN [res |-> Validation("Name cannot be empty"), self |-> self]
    ELSE LET e == Email_new(email)
         IN  IF ~IsOk(e)
             THEN [res |-> e, self |-> self]
             ELSE [res |-> Ok(<<>>),
                   self |-> [self EXCEPT !.name = name, !.email = e.value[1]]]

User_reconstitute(id, name, email, updated_at) ==
    [id |-> id, name |-> name, email |-> email, updated_at |-> updated_at]

Task_new_NoTitleCheck(id, user_id, title, description) ==
    Ok(<<[id |-> id, user_id |-> user_id, title |-> title,
          description |-> description, completed |-> FALSE,
          updated_at |-> "None"]>>)

Task_new_DescriptionRequired(id, user_id, title, description) ==
    IF title = "" \/ description = ""
    THEN Validation("Title cannot be empty")
    ELSE Task_new_NoTitleCheck(id, user_id, title, description)

Task_new(id, user_id, title, description) ==
    IF title = ""
    THEN Validation("Title cannot be empty")
    ELSE Ok(<<[id |-> id, user_id |-> user_id, title |-> title,
               description |-> description, completed |-> FALSE,
               updated_at |-> "None"]>>)

Task_reconstitute(id, user_id, title, description, completed, updated_at) ==
    [id |-> id, user_id |-> user_id, title |-> title,
     description |-> description, completed |-> completed,
     updated_at |-> updated_at]

Task_complete_Toggle(self) ==
    [res |-> Ok(<<>>), self |-> [self EXCEPT !.completed = ~self.completed]]

Task_complete_Idempotent(self) ==
    [res |-> Ok(<<>>), self |-> [self EXCEPT !.completed = TRUE]]

Task_complete(self) ==
    IF self.completed
    THEN [res |-> Validation("Task is already completed"), self |-> self]
    ELSE [res |-> Ok(<<>>), self |-> [self EXCEPT !.completed = TRUE]]

(***************************************************************************)
(* State                                                                   *)
(***************************************************************************)
VARIABLES
    users,       \* rows of table users: [id, name, email, updated_at]
    tasks,       \* rows of table tasks: [id, user_id, title, description,
                 \*                       completed, updated_at]
    nextUserId,  \* identifiers UserId::generate has handed out
    nextTaskId,  \* identifiers TaskId::generate has handed out
    calls,       \* use-case invocations started
    call,        \* per slot: the invocation in flight or last returned
    deletedOk,   \* history: user ids a DeleteUser returned Ok for
    deletedTaskOk, \* history: task ids a DeleteTask returned Ok for
    completedOk, \* history: task ids a CompleteTask returned Ok for
    poolExhausted, \* the connection pool has no connection to hand out
    lastUpd,     \* history: per user row, the command of the UpdateUser
                 \*          whose UPDATE last changed it
    owned,       \* history: [id, user_id] of every task row ever inserted
    unitUser,    \* SpecDomain: the User instance under exercise (Option)
    unitTask,    \* SpecDomain: the Task instance under exercise (Option)
    unitLast     \* SpecDomain: the last method applied, its input and Result

storeVars == <<users, tasks, nextUserId, nextTaskId, calls, call, deletedOk,
               deletedTaskOk, completedOk, poolExhausted, lastUpd, owned>>
unitVars == <<unitUser, unitTask, unitLast>>
vars == <<users, tasks, nextUserId, nextTaskId, calls, call, deletedOk,
          deletedTaskOk, completedOk, poolExhausted, lastUpd, owned, unitUser,
          unitTask, unitLast>>

Pending == [kind |-> "Pending", msg |-> "", value |-> <<>>]
Idle == [pc |-> "idle", op |-> "None", arg |-> <<>>, agg |-> <<>>,
         result |-> Pending, rows |-> 0, stale |-> FALSE]

Init ==
    /\ users = {}
    /\ tasks = {}
    /\ nextUserId = 0
    /\ nextTaskId = 0
    /\ calls = 0
    /\ call = [p \in Procs |-> Idle]
    /\ deletedOk = {}
    /\ deletedTaskOk = {}
    /\ completedOk = {}
    /\ poolExhausted = FALSE
    /\ lastUpd = {}
    /\ owned = {}
    /\ unitUser = <<>>
    /\ unitTask = <<>>
    /\ unitLast = [fn |-> "None", args |-> <<>>, pre |-> <<>>, res |-> Pending]

(***************************************************************************)
(* The relational store: two tables, users with PRIMARY KEY (id) and       *)
(* UNIQUE (email), tasks with PRIMARY KEY (id) and a foreign key           *)
(* user_id -> users(id) ON DELETE CASCADE.  A statement is atomic; it      *)
(* yields the driver's error (Option), the rows affected and the tables    *)
(* as the statement leaves them.                                           *)
(***************************************************************************)
PgError(code, constraint) ==
    [variant |-> "Database", code |-> code,
     message |-> <<"violates", "constraint">> \o constraint]
UniqueViolation(constraint) == PgError("23505", constraint)
ForeignKeyViolation(constraint) == PgError("23503", constraint)

\* the pool's acquire timed out: the statement is never sent
PoolTimedOut ==
    [variant |-> "PoolTimedOut", code |-> "", message |-> <<"pool", "timed", "out">>]

Rejected(e) == [err |-> <<e>>, rows |-> 0, users |-> users, tasks |-> tasks]
Executed(n, u, t) == [err |-> <<>>, rows |-> n, users |-> u, tasks |-> t]

ExecInsertUser(id, name, email) ==
    IF poolExhausted THEN Rejected(PoolTimedOut)
    ELSE IF \E r \in users : r.id = id
    THEN Rejected(UniqueViolation(<<"users", "pkey">>))
    ELSE IF \E r \in users : r.email = email
    THEN Rejected(UniqueViolation(<<"users", "email", "key">>))
    ELSE Executed(1, users \cup {[id |-> id, name |-> name, email |-> email,
                                  updated_at |-> "Default"]}, tasks)

ExecUpdateUser(id, name, email) ==
    LET hit == {r \in users : r.id = id}
    IN  IF poolExhausted THEN Rejected(PoolTimedOut)
        ELSE IF hit = {}
        THEN Executed(0, users, tasks)
        ELSE IF \E r \in users \ hit : r.email = email
        THEN Rejected(UniqueViolation(<<"users", "email", "key">>))
        ELSE Executed(Cardinality(hit),
                      (users \ hit) \cup
                          {[r EXCEPT !.name = name, !.email = email,
                                     !.updated_at = "Now"] : r \in hit},
                      tasks)

ExecDeleteUser(id) ==
    LET hit == {r \in users : r.id = id}
    IN  IF poolExhausted THEN Rejected(PoolTimedOut)
        ELSE
        Executed(Cardinality(hit), users \ hit,
                 {t \in tasks : \A r \in hit : t.user_id # r.id})

ExecInsertTask(id, user_id, title, description) ==
    IF poolExhausted THEN Rejected(PoolTimedOut)
    ELSE IF \E t \in tasks : t.id = id
    THEN Rejected(UniqueViolation(<<"tasks", "pkey">>))
    ELSE IF ~\E r \in users : r.id = user_id
    THEN Rejected(ForeignKeyViolation(<<"tasks", "user_id", "fkey">>))
    ELSE Executed(1, users,
                  tasks \cup {[id |-> id, user_id |-> user_id, title |-> title,
                               description |-> description, completed |-> FALSE,
                               updated_at |-> "Default"]})

ExecUpdateTask(id, title, description, completed) ==
    LET hit == {t \in tasks : t.id = id}
    IN  IF poolExhausted THEN Rejected(PoolTimedOut)
        ELSE
        Executed(Cardinality(hit), users,
                 (tasks \ hit) \cup
                     {[t EXCEPT !.title = title, !.description = description,
                                !.completed = completed, !.updated_at = "Now"]
                        : t \in hit})

ExecDeleteTask(id) ==
    LET hit == {t \in tasks : t.id = id}
    IN  IF poolExhausted THEN Rejected(PoolTimedOut)
        ELSE
        Executed(Cardinality(hit), users, tasks \ hit)

(***************************************************************************)
(* map_db_error                                                            *)
(***************************************************************************)
Contains(message, word) == \E i \in 1..Len(message) : message[i] = word

map_db_error_NoConstraintCodes(e, operation, entity) ==
    Infrastructure("Failed to " \o operation \o " " \o entity)

map_db_error_ForeignKeyAsConflict(e, operation, entity) ==
    IF e.variant = "Database" /\ e.code \in {"23505", "23503"}
    THEN IF Contains(e.message, "email")
         THEN AlreadyExists("Email already exists")
         ELSE AlreadyExists(entity \o " already exists")
    ELSE Infrastructure("Failed to " \o operation \o " " \o entity)

map_db_error_AnyVariant(e, operation, entity) ==
    IF e.code = "23505"
    THEN IF Contains(e.message, "email")
         THEN AlreadyExists("Email already exists")
         ELSE AlreadyExists(entity \o " already exists")
    ELSE IF e.code = "23503"
    THEN NotFound(entity \o " not found")
    ELSE Infrastructure("Failed to " \o operation \o " " \o entity)

map_db_error(e, operation, entity) ==
    IF e.variant = "Database" /\ e.code = "23505"
    THEN IF Contains(e.message, "email")
         THEN AlreadyExists("Email already exists")
         ELSE AlreadyExists(entity \o " already exists")
    ELSE IF e.variant = "Database" /\ e.code = "23503"
    THEN NotFound(entity \o " not found")
    ELSE Infrastructure("Failed to " \o operation \o " " \o entity)

\* the sqlx::Error values handed to map_db_error: database errors with and
\* without a constraint code, whose message does or does not mention the
\* email constraint, and errors that are not database errors
DbCodes == {"23505", "23503", "23502", ""}
DbMessages ==
    {<<"violates", "constraint", "users", "email", "key">>,
     <<"violates", "constraint", "tasks", "pkey">>}
SqlxErrors ==
    {[variant |-> "Database", code |-> c, message |-> m] : c \in DbCodes, m \in DbMessages}
    \cup {PoolTimedOut,
          [variant |-> "Io", code |-> "23505",
           message |-> <<"connection", "to", "email", "db", "reset">>]}
Operations == {"insert", "update", "delete", "find"}
Entities == {"user", "task"}

\* fetch_optional / fetch_all(&self.pool).await.map_err(|e| map_db_error(..))?:
\* the error (Option) a query returns instead of its rows
FetchFailed(operation, entity) ==
    IF poolExhausted THEN <<map_db_error(PoolTimedOut, operation, entity)>> ELSE <<>>

\* .map_err(|e| map_db_error(e, operation, entity))?; Ok(())
Mapped(out, operation, entity) ==
    IF out.err # <<>> THEN map_db_error(out.err[1], operation, entity) ELSE Ok(<<>>)

(***************************************************************************)
(* PgUserRepository.  A method yields [res, rows, users, tasks]: its       *)
(* Result, the rows its statement affected and the tables afterwards.      *)
(***************************************************************************)
Email_from_trusted(value) == value
UserId_from_trusted(value) == value
TaskId_from_trusted(value) == value

UserRow_into_domain(row) ==
    User_reconstitute(UserId_from_trusted(row.id), row.name,
                      Email_from_trusted(row.email), row.updated_at)

\* SELECT ... FROM users WHERE id = $1, fetch_optional
PgUserRepository_find_by_id(id) ==
    LET hit == {r \in users : r.id = id}
    IN  IF hit = {} THEN <<>> ELSE <<UserRow_into_domain(CHOOSE r \in hit : TRUE)>>

PgUserRepository_find_all == {UserRow_into_domain(r) : r \in users}

PgUserRepository_insert(user) ==
    LET out == ExecInsertUser(user.id, user.name, user.email)
    IN  [res |-> Mapped(out, "insert", "user"), rows |-> out.rows,
         users |-> out.users, tasks |-> out.tasks]

PgUserRepository_update_NameOnly(user) ==
    LET old == {r.email : r \in {r \in users : r.id = user.id}}
        out == ExecUpdateUser(user.id, user.name,
                              IF old = {} THEN user.email ELSE CHOOSE e \in old : TRUE)
    IN  [res |-> Mapped(out, "update", "user"), rows |-> out.rows,
         users |-> out.users, tasks |-> out.tasks]

PgUserRepository_update(user) ==
    LET out == ExecUpdateUser(user.id, user.name, user.email)
    IN  [res |-> Mapped(out, "update", "user"), rows |-> out.rows,
         users |-> out.users, tasks |-> out.tasks]

PgUserRepository_delete_NoWhere(id) ==
    [res |-> Ok(<<users # {}>>), rows |-> Cardinality(users),
     users |-> {}, tasks |-> {}]

PgUserRepository_delete_Inverted(id) ==
    LET out == ExecDeleteUser(id)
    IN  [res |-> IF out.err # <<>>
                 THEN map_db_error(out.err[1], "delete", "user")
                 ELSE Ok(<<out.rows = 0>>),
         rows |-> out.rows, users |-> out.users, tasks |-> out.tasks]

PgUserRepository_delete(id) ==
    LET out == ExecDeleteUser(id)
    IN  [res |-> IF out.err # <<>>
                 THEN map_db_error(out.err[1], "delete", "user")
                 ELSE Ok(<<out.rows > 0>>),
         rows |-> out.rows, users |-> out.users, tasks |-> out.tasks]

(***************************************************************************)
(* Use-case invocations.  An action is the work of one invocation up to    *)
(* and including one statement sent to the store: the statements are the   *)
(* only points where invocations meet, and everything between them is      *)
(* local to the invocation.  CreateUser, CreateTask, Get, List and Delete  *)
(* send one statement; UpdateUser and CompleteTask send two (find, then    *)
(* update) and other invocations may run between the two.                  *)
(* A slot holds the invocation in flight, or the last one that returned.   *)
(* A new invocation takes the lowest slot that is not in flight.           *)
(***************************************************************************)
InFlight(p) == call[p].pc = "update"
CanCall(p) ==
    /\ ~InFlight(p)
    /\ \A q \in Procs : q < p => InFlight(q)
    /\ calls < MaxCalls

Loaded(op, arg, agg) ==
    [pc |-> "update", op |-> op, arg |-> arg, agg |-> agg,
     result |-> Pending, rows |-> 0, stale |-> FALSE]
Return(op, arg, agg, res, rows) ==
    [pc |-> "done", op |-> op, arg |-> arg, agg |-> agg,
     result |-> res, rows |-> rows, stale |-> FALSE]
Returned(p, op) == call[p].pc = "done" /\ call[p].op = op
\* slot p takes record c; only the last return is kept
Slots(p, c) ==
    [q \in Procs |-> IF q = p THEN c
                     ELSE IF c.pc = "done" /\ call[q].pc = "done" THEN Idle
                     ELSE call[q]]

\* ---- CreateUserUseCase::execute
CreateUser_execute(p, name, email) ==
    /\ CanCall(p)
    /\ nextUserId < MaxUsers
    /\ LET arg == [name |-> name, email |-> email]
           user == User_new(UserIdOf(nextUserId + 1), name, email)
           ins == PgUserRepository_insert(user.value[1])
       IN  IF ~IsOk(user)
           THEN /\ call' = Slots(p, Return("CreateUser", arg, <<>>, user, 0))
                /\ UNCHANGED <<users, tasks>>
           ELSE /\ users' = ins.users
                /\ tasks' = ins.tasks
                /\ call' = Slots(p,
                               Return("CreateUser", arg, <<>>,
                                      IF IsOk(ins.res) THEN Ok(user.value) ELSE ins.res,
                                      ins.rows))
    /\ nextUserId' = nextUserId + 1
    /\ calls' = calls + 1
    /\ UNCHANGED <<nextTaskId, deletedOk, deletedTaskOk, lastUpd, owned, completedOk,
                   poolExhausted, unitVars>>

\* ---- GetUserUseCase::execute
GetUser_result(id) ==
    LET user_id == UserId_new(id)
    IN  IF ~IsOk(user_id)
        THEN user_id
        ELSE LET failed == FetchFailed("find", "user")
                 found == PgUserRepository_find_by_id(user_id.value[1])
             IN  IF failed # <<>>
                 THEN failed[1]
                 ELSE IF found = <<>>
                 THEN NotFound(UserId_entity_name \o " not found")
                 ELSE Ok(found)

GetUser_execute(p, id) ==
    /\ CanCall(p)
    /\ call' = Slots(p,
                   Return("GetUser", [id |-> id], <<>>, GetUser_result(id), 0))
    /\ calls' = calls + 1
    /\ UNCHANGED <<users, tasks, nextUserId, nextTaskId, deletedOk, deletedTaskOk, lastUpd, owned, completedOk,
                   poolExhausted, unitVars>>

\* ---- ListUsersUseCase::execute
ListUsers_execute(p) ==
    /\ CanCall(p)
    /\ call' = Slots(p,
                   Return("ListUsers", <<>>, <<>>,
                          IF FetchFailed("find_all", "user") # <<>>
                          THEN FetchFailed("find_all", "user")[1]
                          ELSE Ok(<<PgUserRepository_find_all>>), 0))
    /\ calls' = calls + 1
    /\ UNCHANGED <<users, tasks, nextUserId, nextTaskId, deletedOk, deletedTaskOk, lastUpd, owned, completedOk,
                   poolExhausted, unitVars>>

\* ---- UpdateUserUseCase::execute, up to find_by_id
UpdateUser_find(p, id, name, email) ==
    /\ CanCall(p)
    /\ LET arg == [id |-> id, name |-> name, email |-> email]
           user_id == UserId_new(id)
           found == PgUserRepository_find_by_id(user_id.value[1])
       IN  call' = Slots(p,
                       IF ~IsOk(user_id)
                       THEN Return("UpdateUser", arg, <<>>, user_id, 0)
                       ELSE IF FetchFailed("find", "user") # <<>>
                       THEN Return("UpdateUser", arg, <<>>,
                                   FetchFailed("find", "user")[1], 0)
                       ELSE IF found = <<>>
                       THEN Return("UpdateUser", arg, <<>>,
                                   NotFound(UserId_entity_name \o " not found"), 0)
                       ELSE Loaded("UpdateUser", arg, found))
    /\ calls' = calls + 1
    /\ UNCHANGED <<users, tasks, nextUserId, nextTaskId, deletedOk, deletedTaskOk, lastUpd, owned, completedOk,
                   poolExhausted, unitVars>>

\* ---- UpdateUserUseCase::execute, from user.update(..) to the end
UpdateUser_update(p) ==
    /\ InFlight(p)
    /\ call[p].op = "UpdateUser"
    /\ LET c == call[p]
           m == User_update(c.agg[1], c.arg.name, c.arg.email)
           upd == PgUserRepository_update(m.self)
           moved == PgUserRepository_find_by_id(c.arg.id) # c.agg
       IN  IF ~IsOk(m.res)
           THEN /\ call' = Slots(p,
                               [c EXCEPT !.pc = "done", !.agg = <<>>,
                                         !.result = m.res, !.stale = moved])
                /\ UNCHANGED <<users, tasks, lastUpd>>
           ELSE /\ users' = upd.users
                /\ tasks' = upd.tasks
                /\ call' = Slots(p,
                               [c EXCEPT !.pc = "done", !.agg = <<>>,
                                         !.rows = upd.rows, !.stale = moved,
                                         !.result = IF IsOk(upd.res)
                                                    THEN Ok(<<m.self>>)
                                                    ELSE upd.res])
                /\ lastUpd' = IF IsOk(upd.res) /\ upd.rows > 0
                              THEN {w \in lastUpd : w.id # c.arg.id} \cup
                                   {[id |-> c.arg.id, name |-> c.arg.name,
                                     email |-> c.arg.email]}
                              ELSE lastUpd
    /\ UNCHANGED <<nextUserId, nextTaskId, calls, deletedOk, deletedTaskOk, owned, completedOk,
                   poolExhausted, unitVars>>

\* ---- DeleteUserUseCase::execute
DeleteUser_execute(p, id) ==
    /\ CanCall(p)
    /\ LET arg == [id |-> id]
           user_id == UserId_new(id)
           del == PgUserRepository_delete(user_id.value[1])
           res == IF ~IsOk(del.res) THEN del.res
                  ELSE IF ~del.res.value[1] THEN NotFound("User not found")
                  ELSE Ok(<<>>)
       IN  IF ~IsOk(user_id)
           THEN /\ call' = Slots(p, Return("DeleteUser", arg, <<>>, user_id, 0))
                /\ UNCHANGED <<users, tasks, deletedOk, lastUpd>>
           ELSE /\ users' = del.users
                /\ tasks' = del.tasks
                /\ call' = Slots(p,
                               Return("DeleteUser", arg, <<>>, res, del.rows))
                /\ deletedOk' = IF IsOk(res) THEN deletedOk \cup {id} ELSE deletedOk
                /\ lastUpd' = {w \in lastUpd : \E r \in del.users : r.id = w.id}
    /\ calls' = calls + 1
    /\ UNCHANGED <<nextUserId, nextTaskId, deletedTaskOk, owned, completedOk,
                   poolExhausted, unitVars>>

(***************************************************************************)
(* PgTaskRepository                                                        *)
(***************************************************************************)
TaskRow_into_domain_Open(row) ==
    Task_reconstitute(TaskId_from_trusted(row.id), UserId_from_trusted(row.user_id),
                      row.title, row.description, FALSE, row.updated_at)

TaskRow_into_domain(row) ==
    Task_reconstitute(TaskId_from_trusted(row.id), UserId_from_trusted(row.user_id),
                      row.title, row.description, row.completed, row.updated_at)

PgTaskRepository_find_by_id_AnyRow(id) ==
    IF tasks = {} THEN <<>> ELSE <<TaskRow_into_domain(CHOOSE t \in tasks : TRUE)>>

PgTaskRepository_find_by_id(id) ==
    LET hit == {t \in tasks : t.id = id}
    IN  IF hit = {} THEN <<>> ELSE <<TaskRow_into_domain(CHOOSE t \in hit : TRUE)>>

PgTaskRepository_find_by_user_id_NoFilter(user_id) ==
    {TaskRow_into_domain(t) : t \in tasks}

PgTaskRepository_find_by_user_id(user_id) ==
    {TaskRow_into_domain(t) : t \in {t \in tasks : t.user_id = user_id}}

PgTaskRepository_find_all == {TaskRow_into_domain(t) : t \in tasks}

PgTaskRepository_insert(task) ==
    LET out == ExecInsertTask(task.id, task.user_id, task.title, task.description)
    IN  [res |-> Mapped(out, "insert", "task"), rows |-> out.rows,
         users |-> out.users, tasks |-> out.tasks]

PgTaskRepository_update_BlankDescription(task) ==
    LET out == ExecUpdateTask(task.id, task.title, "", task.completed)
    IN  [res |-> Mapped(out, "update", "task"), rows |-> out.rows,
         users |-> out.users, tasks |-> out.tasks]

PgTaskRepository_update(task) ==
    LET out == ExecUpdateTask(task.id, task.title, task.description, task.completed)
    IN  [res |-> Mapped(out, "update", "task"), rows |-> out.rows,
         users |-> out.users, tasks |-> out.tasks]

PgTaskRepository_delete_AlwaysTrue(id) ==
    LET out == ExecDeleteTask(id)
    IN  [res |-> Ok(<<TRUE>>), rows |-> out.rows, users |-> out.users,
         tasks |-> out.tasks]

PgTaskRepository_delete(id) ==
    LET out == ExecDeleteTask(id)
    IN  [res |-> IF out.err # <<>>
                 THEN map_db_error(out.err[1], "delete", "task")
                 ELSE Ok(<<out.rows > 0>>),
         rows |-> out.rows, users |-> out.users, tasks |-> out.tasks]

\* ---- CreateTaskUseCase::execute
CreateTask_execute(p, user_id, title, description) ==
    /\ CanCall(p)
    /\ LET arg == [user_id |-> user_id, title |-> title, description |-> description]
           uid == UserId_new(user_id)
           task == Task_new(TaskIdOf(nextTaskId + 1), uid.value[1], title, description)
           ins == PgTaskRepository_insert(task.value[1])
       IN  IF ~IsOk(uid)
           THEN /\ call' = Slots(p, Return("CreateTask", arg, <<>>, uid, 0))
                /\ UNCHANGED <<users, tasks, nextTaskId, owned>>
           ELSE /\ nextTaskId < MaxTasks
                /\ nextTaskId' = nextTaskId + 1
                /\ IF ~IsOk(task)
                   THEN /\ call' = Slots(p,
                                       Return("CreateTask", arg, <<>>, task, 0))
                        /\ UNCHANGED <<users, tasks, owned>>
                   ELSE /\ users' = ins.users
                        /\ tasks' = ins.tasks
                        /\ owned' = IF IsOk(ins.res)
                                     THEN owned \cup {[id |-> task.value[1].id,
                                                       user_id |-> task.value[1].user_id]}
                                     ELSE owned
                        /\ call' = Slots(p,
                                       Return("CreateTask", arg, <<>>,
                                              IF IsOk(ins.res) THEN Ok(task.value)
                                              ELSE ins.res,
                                              ins.rows))
    /\ calls' = calls + 1
    /\ UNCHANGED <<nextUserId, deletedOk, deletedTaskOk, lastUpd, completedOk,
                   poolExhausted, unitVars>>

\* ---- GetTaskUseCase::execute
GetTask_result(id) ==
    LET task_id == TaskId_new(id)
    IN  IF ~IsOk(task_id)
        THEN task_id
        ELSE LET failed == FetchFailed("find", "task")
                 found == PgTaskRepository_find_by_id(task_id.value[1])
             IN  IF failed # <<>>
                 THEN failed[1]
                 ELSE IF found = <<>>
                 THEN NotFound(TaskId_entity_name \o " not found")
                 ELSE Ok(found)

GetTask_execute(p, id) ==
    /\ CanCall(p)
    /\ call' = Slots(p,
                   Return("GetTask", [id |-> id], <<>>, GetTask_result(id), 0))
    /\ calls' = calls + 1
    /\ UNCHANGED <<users, tasks, nextUserId, nextTaskId, deletedOk, deletedTaskOk, lastUpd, owned, completedOk,
                   poolExhausted, unitVars>>

\* ---- ListTasksUseCase::execute; user_id is an Option: <<>> or <<raw id>>
ListTasks_result(user_id) ==
    IF user_id = <<>>
    THEN IF FetchFailed("find_all", "task") # <<>>
         THEN FetchFailed("find_all", "task")[1]
         ELSE Ok(<<PgTaskRepository_find_all>>)
    ELSE LET uid == UserId_new(user_id[1])
         IN  IF ~IsOk(uid)
             THEN uid
             ELSE IF FetchFailed("find_by_user_id", "task") # <<>>
             THEN FetchFailed("find_by_user_id", "task")[1]
             ELSE Ok(<<PgTaskRepository_find_by_user_id(uid.value[1])>>)

ListTasks_execute(p, user_id) ==
    /\ CanCall(p)
    /\ call' = Slots(p,
                   Return("ListTasks", [user_id |-> user_id], <<>>,
                          ListTasks_result(user_id), 0))
    /\ calls' = calls + 1
    /\ UNCHANGED <<users, tasks, nextUserId, nextTaskId, deletedOk, deletedTaskOk, lastUpd, owned, completedOk,
                   poolExhausted, unitVars>>

\* ---- CompleteTaskUseCase::execute, up to find_by_id
CompleteTask_find(p, id) ==
    /\ CanCall(p)
    /\ LET arg == [id |-> id]
           task_id == TaskId_new(id)
           found == PgTaskRepository_find_by_id(task_id.value[1])
       IN  call' = Slots(p,
                       IF ~IsOk(task_id)
                       THEN Return("CompleteTask", arg, <<>>, task_id, 0)
                       ELSE IF FetchFailed("find", "task") # <<>>
                       THEN Return("CompleteTask", arg, <<>>,
                                   FetchFailed("find", "task")[1], 0)
                       ELSE IF found = <<>>
                       THEN Return("CompleteTask", arg, <<>>,
                                   NotFound(TaskId_entity_name \o " not found"), 0)
                       ELSE Loaded("CompleteTask", arg, found))
    /\ calls' = calls + 1
    /\ UNCHANGED <<users, tasks, nextUserId, nextTaskId, deletedOk, deletedTaskOk, lastUpd, owned, completedOk,
                   poolExhausted, unitVars>>

\* ---- CompleteTaskUseCase::execute, from task.complete() to the end
CompleteTask_update(p) ==
    /\ InFlight(p)
    /\ call[p].op = "CompleteTask"
    /\ LET c == call[p]
           m == Task_complete(c.agg[1])
           upd == PgTaskRepository_update(m.self)
           moved == PgTaskRepository_find_by_id(c.arg.id) # c.agg
       IN  IF ~IsOk(m.res)
           THEN /\ call' = Slots(p,
                               [c EXCEPT !.pc = "done", !.agg = <<>>,
                                         !.result = m.res, !.stale = moved])
                /\ UNCHANGED <<users, tasks, completedOk>>
           ELSE /\ users' = upd.users
                /\ tasks' = upd.tasks
                /\ call' = Slots(p,
                               [c EXCEPT !.pc = "done", !.agg = <<>>,
                                         !.rows = upd.rows, !.stale = moved,
                                         !.result = IF IsOk(upd.res)
                                                    THEN Ok(<<m.self>>)
                                                    ELSE upd.res])
                /\ completedOk' = IF IsOk(upd.res) THEN completedOk \cup {c.arg.id}
                                   ELSE completedOk
    /\ UNCHANGED <<nextUserId, nextTaskId, calls, deletedOk, deletedTaskOk, lastUpd, owned,
                   poolExhausted, unitVars>>

\* ---- DeleteTaskUseCase::execute
DeleteTask_execute(p, id) ==
    /\ CanCall(p)
    /\ LET arg == [id |-> id]
           task_id == TaskId_new(id)
           del == PgTaskRepository_delete(task_id.value[1])
           res == IF ~IsOk(del.res) THEN del.res
                  ELSE IF ~del.res.value[1] THEN NotFound("Task not found")
                  ELSE Ok(<<>>)
       IN  IF ~IsOk(task_id)
           THEN /\ call' = Slots(p, Return("DeleteTask", arg, <<>>, task_id, 0))
                /\ UNCHANGED <<users, tasks, deletedTaskOk>>
           ELSE /\ users' = del.users
                /\ tasks' = del.tasks
                /\ call' = Slots(p,
                               Return("DeleteTask", arg, <<>>, res, del.rows))
                /\ deletedTaskOk' = IF IsOk(res) THEN deletedTaskOk \cup {id}
                                     ELSE deletedTaskOk
    /\ calls' = calls + 1
    /\ UNCHANGED <<nextUserId, nextTaskId, deletedOk, lastUpd, owned, completedOk,
                   poolExhausted, unitVars>>

(***************************************************************************)
(* Spec: any interleaving of the use cases' steps                          *)
(***************************************************************************)
Next ==
    \/ \E p \in Procs, c \in UserCommands : CreateUser_execute(p, c.name, c.email)
    \/ \E p \in Procs, id \in RawUserIds : GetUser_execute(p, id)
    \/ \E p \in Procs : ListUsers_execute(p)
    \/ \E p \in Procs, id \in RawUserIds, c \in UserCommands :
           UpdateUser_find(p, id, c.name, c.email)
    \/ \E p \in Procs : UpdateUser_update(p)
    \/ \E p \in Procs, id \in RawUserIds : DeleteUser_execute(p, id)
    \/ \E p \in Procs, user_id \in RawUserIds, c \in TaskCommands :
           CreateTask_execute(p, user_id, c.title, c.description)
    \/ \E p \in Procs, id \in RawTaskIds : GetTask_execute(p, id)
    \/ \E p \in Procs, user_id \in {<<>>} \cup {<<id>> : id \in RawUserIds} :
           ListTasks_execute(p, user_id)
    \/ \E p \in Procs, id \in RawTaskIds : CompleteTask_find(p, id)
    \/ \E p \in Procs : CompleteTask_update(p)
    \/ \E p \in Procs, id \in RawTaskIds : DeleteTask_execute(p, id)

Spec == Init /\ [][Next]_vars

(***************************************************************************)
(* SpecFaulty: the use cases over a store whose connection pool may run    *)
(* out of connections: while it has none, every statement fails with the   *)
(* pool's acquire timeout and is not sent.                                 *)
(***************************************************************************)
PoolExhausted ==
    /\ ~poolExhausted
    /\ poolExhausted' = TRUE
    /\ UNCHANGED <<users, tasks, nextUserId, nextTaskId, calls, call, deletedOk,
                   deletedTaskOk, completedOk, lastUpd, owned, unitVars>>

PoolRecovered ==
    /\ poolExhausted
    /\ poolExhausted' = FALSE
    /\ UNCHANGED <<users, tasks, nextUserId, nextTaskId, calls, call, deletedOk,
                   deletedTaskOk, completedOk, lastUpd, owned, unitVars>>

NextFaulty ==
    \/ Next
    \/ PoolExhausted
    \/ PoolRecovered

SpecFaulty == Init /\ [][NextFaulty]_vars

(***************************************************************************)
(* SpecDomain: the aggregates' methods applied to in-memory instances.     *)
(* unitLast keeps the method applied last, its arguments, the instance     *)
(* before the call and the Result returned.                                *)
(***************************************************************************)
UnitUser_new(id, name, email) ==
    /\ LET r == User_new(id, name, email)
       IN  /\ unitUser' = IF IsOk(r) THEN r.value ELSE unitUser
           /\ unitLast' = [fn |-> "User::new",
                           args |-> [id |-> id, name |-> name, email |-> email],
                           pre |-> unitUser, res |-> r]
    /\ UNCHANGED <<unitTask, storeVars>>

UnitUser_update(name, email) ==
    /\ unitUser # <<>>
    /\ LET m == User_update(unitUser[1], name, email)
       IN  /\ unitUser' = <<m.self>>
           /\ unitLast' = [fn |-> "User::update",
                           args |-> [name |-> name, email |-> email],
                           pre |-> unitUser, res |-> m.res]
    /\ UNCHANGED <<unitTask, storeVars>>

UnitTask_new(id, user_id, title, description) ==
    /\ LET r == Task_new(id, user_id, title, description)
       IN  /\ unitTask' = IF IsOk(r) THEN r.value ELSE unitTask
           /\ unitLast' = [fn |-> "Task::new",
                           args |-> [id |-> id, user_id |-> user_id, title |-> title,
                                     description |-> description],
                           pre |-> unitTask, res |-> r]
    /\ UNCHANGED <<unitUser, storeVars>>

UnitTask_complete ==
    /\ unitTask # <<>>
    /\ LET m == Task_complete(unitTask[1])
       IN  /\ unitTask' = <<m.self>>
           /\ unitLast' = [fn |-> "Task::complete", args |-> <<>>,
                           pre |-> unitTask, res |-> m.res]
    /\ UNCHANGED <<unitUser, storeVars>>

\* $name::new(raw) for either identifier type
UnitId_new(type, raw) ==
    /\ unitLast' = [fn |-> type \o "Id::new", args |-> [raw |-> raw], pre |-> <<>>,
                    res |-> StringId_new(type, raw)]
    /\ UNCHANGED <<unitUser, unitTask, storeVars>>

\* a == b on two identifiers of one type built from raw strings
UnitId_eq(type, raw1, raw2) ==
    /\ LET a == StringId_new(type, raw1)
           b == StringId_new(type, raw2)
       IN  /\ IsOk(a) /\ IsOk(b)
           /\ unitLast' = [fn |-> type \o "Id::eq",
                           args |-> [raw1 |-> raw1, raw2 |-> raw2], pre |-> <<>>,
                           res |-> Ok(<<StringId_eq(a.value[1], b.value[1])>>)]
    /\ UNCHANGED <<unitUser, unitTask, storeVars>>

Unit_map_db_error(e, operation, entity) ==
    /\ unitLast' = [fn |-> "map_db_error",
                    args |-> [e |-> e, operation |-> operation, entity |-> entity],
                    pre |-> <<>>, res |-> map_db_error(e, operation, entity)]
    /\ UNCHANGED <<unitUser, unitTask, storeVars>>

\* the DomainError values the transport may be handed
DomainErrors ==
    {Validation("Name cannot be empty"), Validation("Task is already completed"),
     NotFound("Task not found"), NotFound("User not found"),
     AlreadyExists("Email already exists"), AlreadyExists("user already exists"),
     Infrastructure("Failed to insert user"), Infrastructure("Failed to find task"),
     Unexpected("boom"), Unexpected("")}

UnitApiError_from(e) ==
    /\ unitLast' = [fn |-> "ApiError::from", args |-> [e |-> e], pre |-> <<>>,
                    res |-> ApiError_from(e)]
    /\ UNCHANGED <<unitUser, unitTask, storeVars>>

\* raw strings handed to the identifiers' new: the ids in use, "" and a blank
RawIds == RawUserIds \cup RawTaskIds \cup {" "}

NextDomain ==
    \/ \E id \in RawUserIds \ {""}, name \in Names, email \in RawEmails :
           UnitUser_new(id, name, email)
    \/ \E name \in Names, email \in RawEmails : UnitUser_update(name, email)
    \/ \E id \in RawTaskIds \ {""}, user_id \in RawUserIds \ {""}, title \in Titles,
          description \in Descriptions :
           UnitTask_new(id, user_id, title, description)
    \/ UnitTask_complete

SpecDomain == Init /\ [][NextDomain]_vars

(***************************************************************************)
(* SpecPure: the functions that take no instance and no store (the         *)
(* identifiers' new and equality, map_db_error, the transport's error      *)
(* mapping) applied to inputs from their alphabets.                        *)
(***************************************************************************)
NextPure ==
    \/ \E type \in {"User", "Task"}, raw \in RawIds : UnitId_new(type, raw)
    \/ \E type \in {"User", "Task"}, raw1 \in RawIds, raw2 \in RawIds :
           UnitId_eq(type, raw1, raw2)
    \/ \E e \in SqlxErrors, operation \in Operations, entity \in Entities :
           Unit_map_db_error(e, operation, entity)
    \/ \E e \in DomainErrors : UnitApiError_from(e)

SpecPure == Init /\ [][NextPure]_vars

(***************************************************************************)
(* Properties                                                              *)
(***************************************************************************)
\* the step starts an invocation of use case op in slot p and the invocation
\* returns in the same step (one-statement use cases, and early returns)
Called(p, op) ==
    /\ calls' = calls + 1
    /\ ~InFlight(p)
    /\ call'[p].pc = "done"
    /\ call'[p].op = op
    /\ \A q \in Procs \ {p} : call'[q] = call[q] \/ call'[q] = Idle

\* C1: a stored task's completed flag only moves false -> true: a task row that
\* is completed is still completed after every step that leaves the row in
\* the store, whatever the use cases and however they interleave.
C1_CompletedNeverReverts ==
    [][\A t \in tasks : t.completed =>
           \A t2 \in tasks' : t2.id = t.id => t2.completed]_vars

\* a CompleteTask returned Ok although another invocation wrote the same task
\* row between its find and its update, and the row is completed
C1_Witness ==
    \E p \in Procs :
        /\ Returned(p, "CompleteTask")
        /\ IsOk(call[p].result)
        /\ call[p].stale
        /\ \E t \in tasks : t.id = call[p].arg.id /\ t.completed

\* C2: Task.complete() on a task with completed = false returns Ok and leaves
\* is_completed() = true; on a task with completed = true it returns
\* Validation and leaves every field of the task unchanged.
C2_CompleteOneWay ==
    unitLast.fn = "Task::complete" =>
        LET pre == unitLast.pre[1]
            now == unitTask[1]
        IN  IF ~pre.completed
            THEN IsOk(unitLast.res) /\ now.completed
            ELSE unitLast.res.kind = "Validation" /\ now = pre

\* complete() was applied to an already completed task and was refused
C2_Witness ==
    /\ unitLast.fn = "Task::complete"
    /\ unitLast.pre[1].completed
    /\ unitLast.res.kind = "Validation"

UniqueEmails ==
    \A r1 \in users, r2 \in users : r1.email = r2.email => r1 = r2

\* C3 as stated: no two user rows share an email, and every CreateUser whose
\* email is held by an existing user row fails with
\* AlreadyExists("Email already exists") and adds no row.
C3_Original ==
    /\ []UniqueEmails
    /\ [][\A p \in Procs :
              (/\ Called(p, "CreateUser")
               /\ \E r \in users : r.email = call'[p].arg.email)
              => /\ call'[p].result = AlreadyExists("Email already exists")
                 /\ users' = users]_vars

\* C3 (amended): no two user rows share an email in any reachable state,
\* whichever CreateUser / UpdateUser invocations interleave; a CreateUser with
\* a non-empty name whose email is held by an existing user row fails with
\* AlreadyExists("Email already exists") and adds no row.
C3_EmailUnique ==
    /\ []UniqueEmails
    /\ [][\A p \in Procs :
              (/\ Called(p, "CreateUser")
               /\ call'[p].arg.name # ""
               /\ \E r \in users : r.email = call'[p].arg.email)
              => /\ call'[p].result = AlreadyExists("Email already exists")
                 /\ users' = users]_vars

\* an UpdateUser that loaded its row lost the email to a CreateUser that ran
\* before its UPDATE: it returned AlreadyExists and one row holds the email
C3_Witness ==
    \E p \in Procs :
        /\ Returned(p, "UpdateUser")
        /\ call[p].result = AlreadyExists("Email already exists")
        /\ Cardinality({r \in users : r.email = call[p].arg.email}) = 1
        /\ Cardinality(users) = 2

ForeignKey == \A t \in tasks : \E r \in users : r.id = t.user_id

\* C4 as stated: every task row's user_id names an existing user row, and
\* every CreateTask whose user_id names no existing user fails with NotFound
\* and inserts no task.
C4_Original ==
    /\ []ForeignKey
    /\ [][\A p \in Procs :
              (/\ Called(p, "CreateTask")
               /\ ~\E r \in users : r.id = call'[p].arg.user_id)
              => /\ call'[p].result.kind = "NotFound"
                 /\ tasks' = tasks]_vars

\* C4 (amended): every task row's user_id names an existing user row in every
\* reachable state, under every interleaving of CreateTask with DeleteUser; a
\* CreateTask with a non-empty title and a non-empty user_id that names no
\* existing user fails with NotFound and inserts no task (the check is the
\* insert itself: CreateTask sends no other statement).
C4_TaskOwnerExists ==
    /\ []ForeignKey
    /\ [][\A p \in Procs :
              (/\ Called(p, "CreateTask")
               /\ call'[p].arg.user_id # ""
               /\ call'[p].arg.title # ""
               /\ ~\E r \in users : r.id = call'[p].arg.user_id)
              => /\ call'[p].result.kind = "NotFound"
                 /\ tasks' = tasks]_vars

\* a CreateTask for a user that a DeleteUser had removed returned NotFound
C4_Witness ==
    \E p \in Procs :
        /\ Returned(p, "CreateTask")
        /\ call[p].result.kind = "NotFound"
        /\ call[p].arg.user_id \in deletedOk

\* C5: once DeleteUser(u) has returned Ok, GetUser(u) returns NotFound and
\* GetTask(t) returns NotFound for every task t that was inserted with
\* user_id = u; the step of the delete changes no other user row and no task
\* row of another user.
C5_DeleteUserCascades ==
    /\ [](\A u \in deletedOk :
              /\ GetUser_result(u).kind = "NotFound"
              /\ \A o \in owned : o.user_id = u => GetTask_result(o.id).kind = "NotFound")
    /\ [][\A p \in Procs :
              (Called(p, "DeleteUser") /\ IsOk(call'[p].result))
              => LET u == call'[p].arg.id
                 IN  /\ {r \in users' : r.id # u} = {r \in users : r.id # u}
                     /\ {t \in tasks' : t.user_id # u} = {t \in tasks : t.user_id # u}]_vars

\* a DeleteUser returned Ok for a user that owned a task, another user is left
C5_Witness ==
    \E p \in Procs :
        /\ Returned(p, "DeleteUser")
        /\ IsOk(call[p].result)
        /\ \E o \in owned : o.user_id = call[p].arg.id
        /\ users # {}

\* C6: UpdateUser returns Ok only when its UPDATE hit an existing user row
\* with that id (and NotFound otherwise, also when a concurrent DeleteUser
\* removed the row between the find and the UPDATE).
C6_UpdateHitsExistingRow ==
    \A p \in Procs :
        (Returned(p, "UpdateUser") /\ IsOk(call[p].result)) => call[p].rows > 0

\* C7: a user row that UpdateUser invocations have written holds exactly the
\* (name, email) pair of the invocation whose UPDATE was applied last, also
\* when the invocations overlap: never one command's name with another's
\* email, never the values from before.
C7_LastWriteWins ==
    \A r \in users : \A w \in lastUpd :
        w.id = r.id => r.name = w.name /\ r.email = w.email

\* an UpdateUser returned Ok and changed the row although another UpdateUser
\* had changed that row between its find and its UPDATE
C7_Witness ==
    \E p \in Procs :
        /\ Returned(p, "UpdateUser")
        /\ IsOk(call[p].result)
        /\ call[p].stale
        /\ call[p].rows = 1
        /\ \E r \in users : r.id = call[p].arg.id /\ r.name = call[p].arg.name

\* C8: User.update(name, email) with an empty name or an invalid email returns
\* Validation and leaves name and email as they were; otherwise it replaces
\* both by the new values.
C8_UserUpdateAtomic ==
    unitLast.fn = "User::update" =>
        LET a == unitLast.args
            pre == unitLast.pre[1]
            now == unitUser[1]
        IN  IF a.name = "" \/ ~EmailAddress_is_valid(a.email)
            THEN /\ unitLast.res.kind = "Validation"
                 /\ now.name = pre.name
                 /\ now.email = pre.email
            ELSE /\ IsOk(unitLast.res)
                 /\ now.name = a.name
                 /\ now.email = a.email

\* update() was given a valid new name with an invalid email and was refused
C8_Witness ==
    /\ unitLast.fn = "User::update"
    /\ unitLast.args.name # ""
    /\ unitLast.args.name # unitLast.pre[1].name
    /\ ~EmailAddress_is_valid(unitLast.args.email)
    /\ unitLast.res.kind = "Validation"

\* C9: from the empty store, whatever the use cases do, every user row has a
\* non-empty name and a valid email and every task row has a non-empty title.
C9_StoredAggregatesValid ==
    /\ \A r \in users : r.name # "" /\ EmailAddress_is_valid(r.email)
    /\ \A t \in tasks : t.title # ""

\* both tables hold rows and a CreateTask with an empty title was refused
C9_Witness ==
    /\ users # {}
    /\ tasks # {}
    /\ \E p \in Procs :
           /\ Returned(p, "CreateTask")
           /\ call[p].arg.title = ""
           /\ call[p].result.kind = "Validation"

\* C10: Task::new with a non-empty title succeeds (also with an empty
\* description) and returns a task with the given id, user_id, title and
\* description and completed = false; with the empty title it fails with
\* Validation.
C10_TaskNew ==
    unitLast.fn = "Task::new" =>
        LET a == unitLast.args
            r == unitLast.res
        IN  IF a.title # ""
            THEN /\ IsOk(r)
                 /\ r.value[1].id = a.id
                 /\ r.value[1].user_id = a.user_id
                 /\ r.value[1].title = a.title
                 /\ r.value[1].description = a.description
                 /\ r.value[1].completed = FALSE
            ELSE r.kind = "Validation"

\* Task::new succeeded with a non-empty title and an empty description
C10_Witness ==
    /\ unitLast.fn = "Task::new"
    /\ unitLast.args.title # ""
    /\ unitLast.args.description = ""
    /\ IsOk(unitLast.res)

\* C11: User::new(id, name, email) succeeds exactly when name is non-empty and
\* the email matches the address grammar, and then carries the given id, name
\* and email; with an empty name it fails with Validation, and with a
\* malformed email (such as one without "@") it fails with Validation.
C11_UserNew ==
    unitLast.fn = "User::new" =>
        LET a == unitLast.args
            r == unitLast.res
        IN  /\ IsOk(r) <=> (a.name # "" /\ EmailAddress_is_valid(a.email))
            /\ a.name = "" => r.kind = "Validation"
            /\ a.email \in {EmailNoAt, EmailNoLocal, EmailNoDomain, <<>>}
                   => r.kind = "Validation"
            /\ IsOk(r) => /\ r.value[1].id = a.id
                          /\ r.value[1].name = a.name
                          /\ r.value[1].email = a.email

\* User::new was given a valid name with an address that has no "@" and
\* was refused
C11_Witness ==
    /\ unitLast.fn = "User::new"
    /\ unitLast.args.name # ""
    /\ unitLast.args.email = EmailNoAt
    /\ unitLast.res = Validation("Invalid email format")

\* C12: for UserId and TaskId, new(raw) fails with Validation when raw is the
\* empty string and otherwise succeeds with an identifier whose value() is
\* raw; two identifiers are equal exactly when their strings are equal.
C12_IdNewAndEquality ==
    /\ unitLast.fn \in {"UserId::new", "TaskId::new"} =>
           IF unitLast.args.raw = ""
           THEN unitLast.res.kind = "Validation"
           ELSE /\ IsOk(unitLast.res)
                /\ StringId_value(unitLast.res.value[1]) = unitLast.args.raw
    /\ unitLast.fn \in {"UserId::eq", "TaskId::eq"} =>
           /\ unitLast.args.raw1 # "" /\ unitLast.args.raw2 # ""
           /\ unitLast.res.value[1] = (unitLast.args.raw1 = unitLast.args.raw2)

\* two task identifiers built from different strings compared unequal
C12_Witness ==
    /\ unitLast.fn = "TaskId::eq"
    /\ unitLast.args.raw1 # unitLast.args.raw2
    /\ unitLast.res = Ok(<<FALSE>>)

GeneratedUserIds == {UserIdOf(n) : n \in 1..nextUserId}
GeneratedTaskIds == {TaskIdOf(n) : n \in 1..nextTaskId}

C14_MapDbError ==
    unitLast.fn = "map_db_error" =>
        LET e == unitLast.args.e
            operation == unitLast.args.operation
            entity == unitLast.args.entity
            unique == e.variant = "Database" /\ e.code = "23505"
            foreign == e.variant = "Database" /\ e.code = "23503"
            mentions == \E i \in DOMAIN e.message : e.message[i] = "email"
        IN  unitLast.res =
                IF unique /\ mentions THEN AlreadyExists("Email already exists")
                ELSE IF unique THEN AlreadyExists(entity \o " already exists")
                ELSE IF foreign THEN NotFound(entity \o " not found")
                ELSE Infrastructure("Failed to " \o operation \o " " \o entity)

\* an error that is no database error, although it carries the text of a
\* unique violation on the email, was mapped to Infrastructure
C14_Witness ==
    /\ unitLast.fn = "map_db_error"
    /\ unitLast.args.e.variant = "Io"
    /\ unitLast.args.operation = "find"
    /\ unitLast.res = Infrastructure("Failed to find task")

\* C15: the transport maps a DomainError to a (status, code) pair fixed by
\* the variant alone: Validation -> 400 VALIDATION_ERROR, NotFound -> 404
\* NOT_FOUND, AlreadyExists -> 409 ALREADY_EXISTS, Infrastructure and
\* Unexpected -> 500 INTERNAL_ERROR; every one of the five variants is mapped.
C15_StatusByVariant ==
    /\ {e.kind : e \in DomainErrors} =
           {"Validation", "NotFound", "AlreadyExists", "Infrastructure", "Unexpected"}
    /\ unitLast.fn = "ApiError::from" =>
           LET k == unitLast.args.e.kind
               r == unitLast.res
           IN  <<r.status, r.code>> =
                   CASE k = "Validation" -> <<400, "VALIDATION_ERROR">>
                     [] k = "NotFound" -> <<404, "NOT_FOUND">>
                     [] k = "AlreadyExists" -> <<409, "ALREADY_EXISTS">>
                     [] k \in {"Infrastructure", "Unexpected"} -> <<500, "INTERNAL_ERROR">>

\* a conflict was mapped to 409 ALREADY_EXISTS
C15_Witness ==
    /\ unitLast.fn = "ApiError::from"
    /\ unitLast.args.e.kind = "AlreadyExists"
    /\ unitLast.res.status = 409

\* C16: for an Infrastructure or Unexpected error the response does not
\* depend on the error's detail: it is status 500, code INTERNAL_ERROR and the
\* fixed message, the same as for every other such error.
C16_InternalDetailHidden ==
    (unitLast.fn = "ApiError::from"
     /\ unitLast.args.e.kind \in {"Infrastructure", "Unexpected"}) =>
        /\ unitLast.res = [code |-> "INTERNAL_ERROR", status |-> 500,
                           message |-> "Internal server error"]
        /\ \A e2 \in DomainErrors :
               e2.kind \in {"Infrastructure", "Unexpected"}
               => ApiError_from(e2) = unitLast.res

\* an Infrastructure error with a detail was answered with the fixed message
C16_Witness ==
    /\ unitLast.fn = "ApiError::from"
    /\ unitLast.args.e = Infrastructure("Failed to insert user")
    /\ unitLast.res.message = "Internal server error"

\* C17: for a Validation, NotFound or AlreadyExists error the response message
\* is the error's detail; GET /tasks/{id} for an id no task row has answers
\* status 404, code NOT_FOUND, message "Task not found".
C17_MessageEchoesDetail ==
    \A p \in Procs :
        (Returned(p, "GetTask") /\ call[p].result.kind = "NotFound") =>
            LET r == ApiError_from(call[p].result)
            IN  /\ r.status = 404
                /\ r.code = "NOT_FOUND"
                /\ r.message = call[p].result.msg
                /\ r.message = "Task not found"

\* C18: GetUser(id) / GetTask(id) with a non-empty id returns the stored row
\* as an aggregate when a row with that id exists and
\* NotFound("User not found") / NotFound("Task not found") when none does;
\* a Get changes neither table.
C18_GetFindsOrNotFound ==
    [][\A p \in Procs :
           /\ (Called(p, "GetUser") /\ call'[p].arg.id # "") =>
                  LET hit == {r \in users : r.id = call'[p].arg.id}
                  IN  /\ hit # {} => \E r \in hit : call'[p].result = Ok(<<r>>)
                      /\ hit = {} => call'[p].result = NotFound("User not found")
                      /\ users' = users /\ tasks' = tasks
           /\ (Called(p, "GetTask") /\ call'[p].arg.id # "") =>
                  LET hit == {t \in tasks : t.id = call'[p].arg.id}
                  IN  /\ hit # {} => \E t \in hit : call'[p].result = Ok(<<t>>)
                      /\ hit = {} => call'[p].result = NotFound("Task not found")
                      /\ users' = users /\ tasks' = tasks]_vars

\* a GetTask returned NotFound while the table held a task under another id
C18_Witness ==
    \E p \in Procs :
        /\ Returned(p, "GetTask")
        /\ call[p].result = NotFound("Task not found")
        /\ call[p].arg.id # ""
        /\ tasks # {}

\* C19 as stated: DeleteUser(id) / DeleteTask(id), whatever the id, returns Ok
\* exactly when a row with that id existed, and the call removed it, and
\* returns NotFound, leaving both tables unchanged, when no such row existed.
C19_Original ==
    [][\A p \in Procs :
           /\ Called(p, "DeleteUser") =>
                  LET id == call'[p].arg.id
                  IN  IF \E r \in users : r.id = id
                      THEN /\ IsOk(call'[p].result)
                           /\ ~\E r \in users' : r.id = id
                      ELSE /\ call'[p].result.kind = "NotFound"
                           /\ users' = users /\ tasks' = tasks
           /\ Called(p, "DeleteTask") =>
                  LET id == call'[p].arg.id
                  IN  IF \E t \in tasks : t.id = id
                      THEN /\ IsOk(call'[p].result)
                           /\ ~\E t \in tasks' : t.id = id
                      ELSE /\ call'[p].result.kind = "NotFound"
                           /\ users' = users /\ tasks' = tasks]_vars

\* C19 (amended): DeleteUser(id) / DeleteTask(id) with a non-empty id returns Ok exactly
\* when a row with that id existed, and the call removed it; it returns
\* NotFound and leaves both tables unchanged when no such row existed; no id
\* is answered Ok twice, so of two deletes of one id, one after the other or
\* overlapping, at most one returns Ok and the other returns NotFound.
C19_DeleteOkOnce ==
    [][\A p \in Procs :
           /\ (Called(p, "DeleteUser") /\ call'[p].arg.id # "") =>
                  LET id == call'[p].arg.id
                  IN  IF \E r \in users : r.id = id
                      THEN /\ IsOk(call'[p].result)
                           /\ ~\E r \in users' : r.id = id
                           /\ id \notin deletedOk
                      ELSE /\ call'[p].result = NotFound("User not found")
                           /\ users' = users /\ tasks' = tasks
           /\ (Called(p, "DeleteTask") /\ call'[p].arg.id # "") =>
                  LET id == call'[p].arg.id
                  IN  IF \E t \in tasks : t.id = id
                      THEN /\ IsOk(call'[p].result)
                           /\ ~\E t \in tasks' : t.id = id
                           /\ id \notin deletedTaskOk
                      ELSE /\ call'[p].result = NotFound("Task not found")
                           /\ users' = users /\ tasks' = tasks]_vars

\* a DeleteTask returned NotFound for an id an earlier DeleteTask returned Ok for
C19_Witness ==
    \E p \in Procs :
        /\ Returned(p, "DeleteTask")
        /\ call[p].result = NotFound("Task not found")
        /\ call[p].arg.id \in deletedTaskOk

\* the public fields of an aggregate (UserResponse / TaskResponse)
UserResponse_from(u) == [id |-> u.id, name |-> u.name, email |-> u.email]
TaskResponse_from(t) ==
    [id |-> t.id, user_id |-> t.user_id, title |-> t.title,
     description |-> t.description, completed |-> t.completed]

\* C20: when CreateUser / UpdateUser (CreateTask / CompleteTask) has returned
\* an aggregate and no store statement has run since, GetUser (GetTask) of
\* the same id returns an aggregate with the same public fields.
C20_RoundTrip ==
    \A p \in Procs :
        /\ ((Returned(p, "CreateUser") \/ Returned(p, "UpdateUser"))
            /\ IsOk(call[p].result)) =>
               LET got == GetUser_result(call[p].result.value[1].id)
               IN  /\ IsOk(got)
                   /\ UserResponse_from(got.value[1]) =
                          UserResponse_from(call[p].result.value[1])
        /\ ((Returned(p, "CreateTask") \/ Returned(p, "CompleteTask"))
            /\ IsOk(call[p].result)) =>
               LET got == GetTask_result(call[p].result.value[1].id)
               IN  /\ IsOk(got)
                   /\ TaskResponse_from(got.value[1]) =
                          TaskResponse_from(call[p].result.value[1])

\* C21 as stated: ListTasks(None) returns every task row, ListTasks(Some(u)),
\* whatever u, returns exactly the task rows whose user_id is u (none when
\* there is none), and neither changes the store.
C21_Original ==
    [][\A p \in Procs :
           Called(p, "ListTasks") =>
               LET f == call'[p].arg.user_id
               IN  /\ f = <<>> => call'[p].result = Ok(<<tasks>>)
                   /\ f # <<>> =>
                          call'[p].result = Ok(<<{t \in tasks : t.user_id = f[1]}>>)
                   /\ users' = users /\ tasks' = tasks]_vars

\* C21 (amended): ListTasks(None) returns every task row; ListTasks(Some(u))
\* with a non-empty u returns exactly the task rows whose user_id is u, the
\* empty list when there is none, also when no user row has id u; neither
\* changes the store.
C21_ListTasks ==
    [][\A p \in Procs :
           Called(p, "ListTasks") =>
               LET f == call'[p].arg.user_id
               IN  /\ f = <<>> => call'[p].result = Ok(<<tasks>>)
                   /\ (f # <<>> /\ f[1] # "") =>
                          call'[p].result = Ok(<<{t \in tasks : t.user_id = f[1]}>>)
                   /\ users' = users /\ tasks' = tasks]_vars

\* ListTasks filtered by the id of no user row returned the empty list while
\* the table held a task of another user
C21_Witness ==
    \E p \in Procs :
        /\ Returned(p, "ListTasks")
        /\ call[p].arg.user_id # <<>>
        /\ call[p].arg.user_id[1] # ""
        /\ ~\E r \in users : r.id = call[p].arg.user_id[1]
        /\ call[p].result = Ok(<<{}>>)
        /\ tasks # {}

\* the step is the find of a CompleteTask invocation in slot p that loads a row
CompleteTaskLoads(p) ==
    /\ calls' = calls + 1
    /\ ~InFlight(p)
    /\ call'[p].pc = "update"
    /\ call'[p].op = "CompleteTask"

\* the step is the second step of a CompleteTask invocation in slot p
CompleteTaskReturns(p) ==
    /\ InFlight(p)
    /\ call[p].op = "CompleteTask"
    /\ call'[p].pc = "done"

\* C22 as stated: for any task at most one CompleteTask invocation returns Ok,
\* also when the invocations interleave their load, mutate and persist steps.
C22_Original ==
    [][\A p \in Procs :
           (CompleteTaskReturns(p) /\ IsOk(call'[p].result))
           => call[p].arg.id \notin completedOk]_vars

\* C22 (amended): a CompleteTask that loads the task after a CompleteTask on
\* it has returned Ok finds it completed, returns Validation and writes
\* nothing; a CompleteTask returns Ok exactly when the copy it loaded was not
\* completed, so invocations run one after another give one Ok, and
\* invocations that all load before any of them persists all return Ok.
C22_CompleteOncePerLoad ==
    /\ [](\A id \in completedOk : \A t \in tasks : t.id = id => t.completed)
    /\ [][\A p \in Procs :
              /\ (CompleteTaskLoads(p) /\ call'[p].arg.id \in completedOk)
                 => call'[p].agg[1].completed
              /\ CompleteTaskReturns(p) =>
                     IF call[p].agg[1].completed
                     THEN /\ call'[p].result = Validation("Task is already completed")
                          /\ tasks' = tasks
                     ELSE IsOk(call'[p].result)]_vars

\* a CompleteTask returned Validation for a task an earlier one returned Ok for
C22_Witness ==
    \E p \in Procs :
        /\ Returned(p, "CompleteTask")
        /\ call[p].result = Validation("Task is already completed")
        /\ call[p].arg.id \in completedOk

\* the step is one in which the invocation in slot p returns: the only step
\* of a one-statement use case, an early return, or the second step of
\* UpdateUser / CompleteTask
Returns(p) ==
    /\ call'[p].pc = "done"
    /\ \/ InFlight(p)
       \/ /\ calls' = calls + 1
          /\ \A q \in Procs \ {p} : call'[q] = call[q] \/ call'[q] = Idle

\* the step is the find of an UpdateUser / CompleteTask in slot p that loads a row
Loads(p) == ~InFlight(p) /\ call'[p].pc = "update"

C24_TaskFieldsImmutable ==
    [][/\ \A t \in tasks : \A t2 \in tasks' :
              t2.id = t.id => /\ t2.user_id = t.user_id
                              /\ t2.title = t.title
                              /\ t2.description = t.description
       /\ \A p \in Procs :
              /\ CompleteTaskReturns(p) =>
                     /\ {t.id : t \in tasks'} = {t.id : t \in tasks}
                     /\ \A t \in tasks : t.id # call[p].arg.id => t \in tasks'
              /\ (call'[p].op \in {"CreateUser", "GetUser", "ListUsers", "UpdateUser"}
                  /\ call'[p] # call[p]) => tasks' = tasks
              /\ Called(p, "DeleteUser") =>
                     /\ tasks' \subseteq tasks
                     /\ \A t \in tasks \ tasks' : t.user_id = call'[p].arg.id]_vars

\* a CompleteTask wrote a row that carries a description, from a copy loaded
\* before another CompleteTask wrote the same row
C24_Witness ==
    \E p \in Procs :
        /\ Returned(p, "CompleteTask")
        /\ IsOk(call[p].result)
        /\ call[p].rows = 1
        /\ call[p].stale
        /\ \E t \in tasks : /\ t.id = call[p].arg.id
                            /\ t.description = "2 litres"
                            /\ t.completed

====
